---- MODULE Spec2Model ----
(***************************************************************************)
(* State-machine model of minotari_payment_processor: the payments and     *)
(* payment_batches tables (db/payment.rs, db/payment_batch.rs), the        *)
(* TransactionSigner worker (workers/transaction_signer.rs) and the other  *)
(* pipeline workers and the ingress, which drive the store operations.     *)
(***************************************************************************)
EXTENDS Integers, Sequences, FiniteSets, TLC

(* ------------------------------ bounds --------------------------------- *)
\* Largest number of rows of the payments table.
MaxPayments == 2
\* Largest number of rows of the payments table when several signer instances run.
MaxPaymentsMulti == 1
\* Largest number of submit_payment requests in flight at once.
MaxRequests == 2

(* --------------------------- program constants ------------------------- *)
MAX_RETRIES == 10
BATCH_LIMIT == 100

\* Option::None of a text column / of payment_batch_id / of an integer column.
None == "NULL"
NoBatch == 0
NoneInt == -1

PaymentStatus == {"RECEIVED", "BATCHED", "CONFIRMED", "FAILED"}
PaymentBatchStatus ==
    {"PENDING_BATCHING", "AWAITING_SIGNATURE", "SIGNING_IN_PROGRESS", "AWAITING_BROADCAST",
     "BROADCASTING", "AWAITING_CONFIRMATION", "CONFIRMED", "FAILED"}

(* ------------------------ inputs of the environment -------------------- *)
Clients == {"c1", "c2"}
Accounts == {"alice", "bob"}
\* The client keys (client_id, account_name) that clients submit.
ClientKeys == {<<"c1", "alice">>, <<"c2", "alice">>, <<"c1", "bob">>}
UnsignedBodies == {"U"}
SignedBodies == {"S"}
CliStderr == {"bad key"}
SpawnErrors == {"NotFound"}
ServiceRejections == {"invalid recipients"}
NodeRejections == {"double spend"}
TransientReasons == {"timeout", "http 503"}
\* The batches whose external calls meet transient errors.
RetryingBatches == {1}
MinedReports == {[height |-> 42, header_hash |-> <<171, 205>>, timestamp |-> 1700000000]}

VARIABLES
    payments,       \* the payments table: sequence of rows, id = index
    batches,        \* the payment_batches table: sequence of rows, id = index
    instances,      \* the TransactionSigner instances polling the store
    ingress,        \* submit_payment requests between lookup and create
    bc_groups,      \* BatchCreator: account groups of the tick still to be batched
    utc_queue,      \* UnsignedTxCreator: batches of the tick still to be processed
    signer,         \* per signer instance: position in the tick and its batch list
    bro_queue,      \* Broadcaster: batches of the tick still to be processed
    bro_pc,         \* Broadcaster: position within the head batch
    cc_queue,       \* ConfirmationChecker: batches of the tick still to be processed
    batched_into,   \* history: the batch each payment was placed in
    cli_started,    \* history: per batch, the signer instances that started the wallet CLI
    retry_calls,    \* history: per batch, the number of increment_retry_count calls
    returned,       \* history: per client key, the payment ids submit_payment returned
    restarted       \* history: the last step was the restart of the process

vars == <<payments, batches, instances, ingress, bc_groups, utc_queue, signer, bro_queue,
          bro_pc, cc_queue, batched_into, cli_started, retry_calls, returned, restarted>>

store == <<payments, batches>>
history == <<batched_into, cli_started, retry_calls, returned>>

PaymentIds == 1..Len(payments)
BatchIds == 1..Len(batches)

(* ------------------------------ helpers -------------------------------- *)
\* The ids of a set in ascending (row) order.
RECURSIVE SortedSeq(_)
SortedSeq(S) ==
    IF S = {} THEN <<>>
    ELSE LET m == CHOOSE x \in S : \A y \in S : x <= y
         IN <<m>> \o SortedSeq(S \ {m})

HexDigits == <<"0", "1", "2", "3", "4", "5", "6", "7", "8", "9", "a", "b", "c", "d", "e", "f">>

\* hex::encode: two lowercase hex digits per byte.
RECURSIVE HexEncode(_)
HexEncode(bytes) ==
    IF bytes = <<>> THEN ""
    ELSE HexDigits[(Head(bytes) \div 16) + 1] \o HexDigits[(Head(bytes) % 16) + 1]
         \o HexEncode(Tail(bytes))

(* ---------------------------- db/payment.rs ---------------------------- *)
\* UNIQUE (client_id, account_name) of the payments table: the Conflict error.
UniqueClientKey(ps, client_id, account_name) ==
    \A i \in 1..Len(ps) : ~(ps[i].client_id = client_id /\ ps[i].account_name = account_name)

\* Payment::create: INSERT one RECEIVED row with a fresh id.
PaymentCreate(ps, client_id, account_name) ==
    Append(ps, [client_id |-> client_id, account_name |-> account_name,
                status |-> "RECEIVED", payment_batch_id |-> NoBatch,
                failure_reason |-> None])

\* What Payment::create answers: Ok with the row that was inserted, here its
\* id, or the database error of the INSERT as fetch_one hands it back (lines
\* 96-97); the only such error modelled is the violated unique client key.
PaymentCreateResult(ps, client_id, account_name) ==
    IF UniqueClientKey(ps, client_id, account_name)
    THEN [kind |-> "Ok", id |-> Len(ps) + 1]
    ELSE [kind |-> "Conflict", id |-> NoneInt]

\* get_by_client_id that finds only the payments not yet batched.
get_by_client_id_received_only(ps, client_id, account_name) ==
    {i \in 1..Len(ps) : /\ ps[i].client_id = client_id
                        /\ ps[i].account_name = account_name
                        /\ ps[i].status = "RECEIVED"}

\* get_by_client_id with the account_name condition of the WHERE clause lost.
get_by_client_id_any_account(ps, client_id, account_name) ==
    {i \in 1..Len(ps) : ps[i].client_id = client_id}

\* Payment::get_by_client_id: the ids of the rows with this client key.
get_by_client_id(ps, client_id, account_name) ==
    {i \in 1..Len(ps) : ps[i].client_id = client_id /\ ps[i].account_name = account_name}

\* Payment::find_receivable_payments: WHERE status = 'RECEIVED' LIMIT ?.
find_receivable_payments(ps, limit) ==
    LET rows == SortedSeq({i \in 1..Len(ps) : ps[i].status = "RECEIVED"})
    IN {rows[k] : k \in 1..(IF Len(rows) < limit THEN Len(rows) ELSE limit)}

\* Payment::update_payment_status: writes status, payment_batch_id and
\* failure_reason (None is written as NULL) of the listed rows.
update_payment_status(ps, payment_ids, status, payment_batch_id, failure_reason) ==
    [i \in 1..Len(ps) |->
        IF i \in payment_ids
        THEN [ps[i] EXCEPT !.status = status, !.payment_batch_id = payment_batch_id,
                           !.failure_reason = failure_reason]
        ELSE ps[i]]

\* update_payments_to_confirmed called with the id list left empty.
update_payments_to_confirmed_no_ids(ps, payment_ids) ==
    update_payment_status(ps, {}, "CONFIRMED", NoBatch, None)

update_payments_to_confirmed(ps, payment_ids) ==
    update_payment_status(ps, payment_ids, "CONFIRMED", NoBatch, None)

\* fail_payments_in_batch with the WHERE clause lost: every row is failed.
fail_payments_in_batch_all_rows(ps, batch_id, reason) ==
    [i \in 1..Len(ps) |-> [ps[i] EXCEPT !.status = "FAILED", !.failure_reason = reason]]

\* Payment::fail_payments_in_batch: WHERE payment_batch_id = ?.
fail_payments_in_batch(ps, batch_id, reason) ==
    [i \in 1..Len(ps) |->
        IF ps[i].payment_batch_id = batch_id
        THEN [ps[i] EXCEPT !.status = "FAILED", !.failure_reason = reason]
        ELSE ps[i]]

\* Payment::find_by_batch_id.
find_by_batch_id(ps, batch_id) ==
    {i \in 1..Len(ps) : ps[i].payment_batch_id = batch_id}

(* ------------------------- db/payment_batch.rs ------------------------- *)
\* PaymentBatchUpdate::default(): no field set.
PaymentBatchUpdate ==
    [status |-> None, unsigned_tx_json |-> None, signed_tx_json |-> None,
     error_message |-> None, mined_height |-> NoneInt, mined_header_hash |-> None,
     mined_timestamp |-> NoneInt]

\* update_payment_batch_status whose retry_count increment has no WHERE
\* clause: every row is incremented.
update_payment_batch_status_increment_all(bs, batch_id, update, increment_retry_count) ==
    [b \in 1..Len(bs) |->
        [account_name |-> bs[b].account_name,
         status |-> IF b = batch_id /\ update.status # None
                    THEN update.status ELSE bs[b].status,
         unsigned_tx_json |-> IF b = batch_id /\ update.unsigned_tx_json # None
                              THEN update.unsigned_tx_json ELSE bs[b].unsigned_tx_json,
         signed_tx_json |-> IF b = batch_id /\ update.signed_tx_json # None
                            THEN update.signed_tx_json ELSE bs[b].signed_tx_json,
         error_message |-> IF b = batch_id /\ update.error_message # None
                           THEN update.error_message ELSE bs[b].error_message,
         mined_height |-> IF b = batch_id /\ update.mined_height # NoneInt
                          THEN update.mined_height ELSE bs[b].mined_height,
         mined_header_hash |-> IF b = batch_id /\ update.mined_header_hash # None
                               THEN update.mined_header_hash ELSE bs[b].mined_header_hash,
         mined_timestamp |-> IF b = batch_id /\ update.mined_timestamp # NoneInt
                             THEN update.mined_timestamp ELSE bs[b].mined_timestamp,
         retry_count |-> IF increment_retry_count
                         THEN bs[b].retry_count + 1 ELSE bs[b].retry_count]]

\* update_payment_batch_status that starts the retry count afresh whenever it
\* writes a status.
update_payment_batch_status_resets_retry(bs, batch_id, update, increment_retry_count) ==
    [b \in 1..Len(bs) |->
        IF b # batch_id THEN bs[b]
        ELSE [account_name |-> bs[b].account_name,
              status |-> IF update.status # None THEN update.status ELSE bs[b].status,
              unsigned_tx_json |-> IF update.unsigned_tx_json # None
                                   THEN update.unsigned_tx_json ELSE bs[b].unsigned_tx_json,
              signed_tx_json |-> IF update.signed_tx_json # None
                                 THEN update.signed_tx_json ELSE bs[b].signed_tx_json,
              error_message |-> IF update.error_message # None
                                THEN update.error_message ELSE bs[b].error_message,
              mined_height |-> IF update.mined_height # NoneInt
                               THEN update.mined_height ELSE bs[b].mined_height,
              mined_header_hash |-> IF update.mined_header_hash # None
                                    THEN update.mined_header_hash ELSE bs[b].mined_header_hash,
              mined_timestamp |-> IF update.mined_timestamp # NoneInt
                                  THEN update.mined_timestamp ELSE bs[b].mined_timestamp,
              retry_count |-> IF increment_retry_count THEN bs[b].retry_count + 1
                              ELSE IF update.status # None THEN 0
                              ELSE bs[b].retry_count]]

\* PaymentBatch::update_payment_batch_status: UPDATE ... WHERE id = ?, writing
\* only the fields that are set; the row's current status is not consulted.
update_payment_batch_status(bs, batch_id, update, increment_retry_count) ==
    [b \in 1..Len(bs) |->
        IF b # batch_id THEN bs[b]
        ELSE [account_name |-> bs[b].account_name,
              status |-> IF update.status # None THEN update.status ELSE bs[b].status,
              unsigned_tx_json |-> IF update.unsigned_tx_json # None
                                   THEN update.unsigned_tx_json ELSE bs[b].unsigned_tx_json,
              signed_tx_json |-> IF update.signed_tx_json # None
                                 THEN update.signed_tx_json ELSE bs[b].signed_tx_json,
              error_message |-> IF update.error_message # None
                                THEN update.error_message ELSE bs[b].error_message,
              mined_height |-> IF update.mined_height # NoneInt
                               THEN update.mined_height ELSE bs[b].mined_height,
              mined_header_hash |-> IF update.mined_header_hash # None
                                    THEN update.mined_header_hash ELSE bs[b].mined_header_hash,
              mined_timestamp |-> IF update.mined_timestamp # NoneInt
                                  THEN update.mined_timestamp ELSE bs[b].mined_timestamp,
              retry_count |-> IF increment_retry_count
                              THEN bs[b].retry_count + 1 ELSE bs[b].retry_count]]

\* find_by_status with the WHERE clause lost: every row is returned.
find_by_status_any_status(bs, status) ==
    SortedSeq(1..Len(bs))

\* PaymentBatch::find_by_status: the matching rows, in row order.
find_by_status(bs, status) ==
    SortedSeq({b \in 1..Len(bs) : bs[b].status = status})

\* create_with_payments whose UPDATE selects the RECEIVED rows in place of
\* the listed ids.
create_with_payments_all_received(ps, bs, account_name, payment_ids) ==
    LET batch_id == Len(bs) + 1
    IN [batches |-> Append(bs, [account_name |-> account_name,
                                 status |-> "PENDING_BATCHING",
                                 unsigned_tx_json |-> None, signed_tx_json |-> None,
                                 error_message |-> None, mined_height |-> NoneInt,
                                 mined_header_hash |-> None, mined_timestamp |-> NoneInt,
                                 retry_count |-> 0]),
        payments |-> [i \in 1..Len(ps) |->
                        IF ps[i].status = "RECEIVED"
                        THEN [ps[i] EXCEPT !.status = "BATCHED", !.payment_batch_id = batch_id]
                        ELSE ps[i]]]

\* create_with_payments with the UPDATE of the payments lost.
create_with_payments_batch_only(ps, bs, account_name, payment_ids) ==
    [batches |-> Append(bs, [account_name |-> account_name,
                             status |-> "PENDING_BATCHING",
                             unsigned_tx_json |-> None, signed_tx_json |-> None,
                             error_message |-> None, mined_height |-> NoneInt,
                             mined_header_hash |-> None, mined_timestamp |-> NoneInt,
                             retry_count |-> 0]),
     payments |-> ps]

\* PaymentBatch::create_with_payments: one transaction inserting the batch and
\* updating the listed payments; returns the new store.
create_with_payments(ps, bs, account_name, payment_ids) ==
    LET batch_id == Len(bs) + 1
    IN [batches |-> Append(bs, [account_name |-> account_name,
                                 status |-> "PENDING_BATCHING",
                                 unsigned_tx_json |-> None, signed_tx_json |-> None,
                                 error_message |-> None, mined_height |-> NoneInt,
                                 mined_header_hash |-> None, mined_timestamp |-> NoneInt,
                                 retry_count |-> 0]),
        payments |-> [i \in 1..Len(ps) |->
                        IF i \in payment_ids
                        THEN [ps[i] EXCEPT !.status = "BATCHED", !.payment_batch_id = batch_id]
                        ELSE ps[i]]]

\* update_to_awaiting_signature that writes the status without the transaction.
update_to_awaiting_signature_no_body(bs, batch_id, unsigned_tx_json) ==
    update_payment_batch_status(bs, batch_id,
        [PaymentBatchUpdate EXCEPT !.status = "AWAITING_SIGNATURE"], FALSE)

update_to_awaiting_signature(bs, batch_id, unsigned_tx_json) ==
    update_payment_batch_status(bs, batch_id,
        [PaymentBatchUpdate EXCEPT !.status = "AWAITING_SIGNATURE",
                                   !.unsigned_tx_json = unsigned_tx_json], FALSE)

\* update_to_signing_in_progress that leaves the batch in AWAITING_SIGNATURE.
update_to_signing_in_progress_no_claim(bs, batch_id) ==
    update_payment_batch_status(bs, batch_id,
        [PaymentBatchUpdate EXCEPT !.status = "AWAITING_SIGNATURE"], FALSE)

update_to_signing_in_progress(bs, batch_id) ==
    update_payment_batch_status(bs, batch_id,
        [PaymentBatchUpdate EXCEPT !.status = "SIGNING_IN_PROGRESS"], FALSE)

\* update_to_awaiting_broadcast writing the status of the previous stage.
update_to_awaiting_broadcast_wrong_status(bs, batch_id, signed_tx_json) ==
    update_payment_batch_status(bs, batch_id,
        [PaymentBatchUpdate EXCEPT !.status = "AWAITING_SIGNATURE",
                                   !.signed_tx_json = signed_tx_json], FALSE)

update_to_awaiting_broadcast(bs, batch_id, signed_tx_json) ==
    update_payment_batch_status(bs, batch_id,
        [PaymentBatchUpdate EXCEPT !.status = "AWAITING_BROADCAST",
                                   !.signed_tx_json = signed_tx_json], FALSE)

update_to_broadcasting(bs, batch_id) ==
    update_payment_batch_status(bs, batch_id,
        [PaymentBatchUpdate EXCEPT !.status = "BROADCASTING"], FALSE)

update_to_awaiting_confirmation(bs, batch_id) ==
    update_payment_batch_status(bs, batch_id,
        [PaymentBatchUpdate EXCEPT !.status = "AWAITING_CONFIRMATION"], FALSE)

\* update_to_confirmed that leaves mined_timestamp unwritten.
update_to_confirmed_no_timestamp(bs, batch_id, mined_height, mined_header_hash, mined_timestamp) ==
    update_payment_batch_status(bs, batch_id,
        [PaymentBatchUpdate EXCEPT !.status = "CONFIRMED",
                                   !.mined_height = mined_height,
                                   !.mined_header_hash = HexEncode(mined_header_hash)], FALSE)

\* update_to_confirmed with mined_height and mined_timestamp bound to each
\* other's column.
update_to_confirmed_swapped(bs, batch_id, mined_height, mined_header_hash, mined_timestamp) ==
    update_payment_batch_status(bs, batch_id,
        [PaymentBatchUpdate EXCEPT !.status = "CONFIRMED",
                                   !.mined_height = mined_timestamp,
                                   !.mined_header_hash = HexEncode(mined_header_hash),
                                   !.mined_timestamp = mined_height], FALSE)

update_to_confirmed(bs, batch_id, mined_height, mined_header_hash, mined_timestamp) ==
    update_payment_batch_status(bs, batch_id,
        [PaymentBatchUpdate EXCEPT !.status = "CONFIRMED",
                                   !.mined_height = mined_height,
                                   !.mined_header_hash = HexEncode(mined_header_hash),
                                   !.mined_timestamp = mined_timestamp], FALSE)

\* update_to_failed that also counts a retry on the batch row.
update_to_failed_counts_retry(ps, bs, batch_id, error_message) ==
    [batches |-> update_payment_batch_status(bs, batch_id,
                    [PaymentBatchUpdate EXCEPT !.status = "FAILED",
                                               !.error_message = error_message], TRUE),
     payments |-> fail_payments_in_batch(ps, batch_id, error_message)]

\* update_to_failed whose batch row keeps its status: only the payments fail.
update_to_failed_payments_only(ps, bs, batch_id, error_message) ==
    [batches |-> update_payment_batch_status(bs, batch_id,
                    [PaymentBatchUpdate EXCEPT !.error_message = error_message], FALSE),
     payments |-> fail_payments_in_batch(ps, batch_id, error_message)]

\* update_to_failed without the cascade to the payments.
update_to_failed_no_cascade(ps, bs, batch_id, error_message) ==
    [batches |-> update_payment_batch_status(bs, batch_id,
                    [PaymentBatchUpdate EXCEPT !.status = "FAILED",
                                               !.error_message = error_message], FALSE),
     payments |-> ps]

\* PaymentBatch::update_to_failed: one transaction over the batch row and the
\* payments of the batch; returns the new store.
update_to_failed(ps, bs, batch_id, error_message) ==
    [batches |-> update_payment_batch_status(bs, batch_id,
                    [PaymentBatchUpdate EXCEPT !.status = "FAILED",
                                               !.error_message = error_message], FALSE),
     payments |-> fail_payments_in_batch(ps, batch_id, error_message)]

\* The test with > in place of >=.
RetriesExhausted_gt(retry_count) == retry_count + 1 > MAX_RETRIES

\* The test of PaymentBatch::increment_retry_count for its terminal branch.
RetriesExhausted(retry_count) == retry_count + 1 >= MAX_RETRIES

\* increment_retry_count whose retry branch also records the error.
increment_retry_count_records_error(ps, bs, batch_id, error_message) ==
    IF RetriesExhausted(bs[batch_id].retry_count)
    THEN [batches |-> update_payment_batch_status(bs, batch_id,
                        [PaymentBatchUpdate EXCEPT !.status = "FAILED",
                                                   !.error_message = error_message], FALSE),
          payments |-> fail_payments_in_batch(ps, batch_id, error_message)]
    ELSE [batches |-> update_payment_batch_status(bs, batch_id,
                        [PaymentBatchUpdate EXCEPT !.error_message = error_message], TRUE),
          payments |-> ps]

\* increment_retry_count whose terminal branch fails the batch row only.
increment_retry_count_no_cascade(ps, bs, batch_id, error_message) ==
    IF RetriesExhausted(bs[batch_id].retry_count)
    THEN [batches |-> update_payment_batch_status(bs, batch_id,
                        [PaymentBatchUpdate EXCEPT !.status = "FAILED",
                                                   !.error_message = error_message], FALSE),
          payments |-> ps]
    ELSE [batches |-> update_payment_batch_status(bs, batch_id, PaymentBatchUpdate, TRUE),
          payments |-> ps]

\* PaymentBatch::increment_retry_count: one transaction; returns the new store.
increment_retry_count(ps, bs, batch_id, error_message) ==
    IF RetriesExhausted(bs[batch_id].retry_count)
    THEN [batches |-> update_payment_batch_status(bs, batch_id,
                        [PaymentBatchUpdate EXCEPT !.status = "FAILED",
                                                   !.error_message = error_message], FALSE),
          payments |-> fail_payments_in_batch(ps, batch_id, error_message)]
    ELSE [batches |-> update_payment_batch_status(bs, batch_id, PaymentBatchUpdate, TRUE),
          payments |-> ps]

(* ------------------------------- Init ---------------------------------- *)
IdleSigner == [pc |-> "idle", queue |-> <<>>]

InitStore ==
    /\ payments = <<>>
    /\ batches = <<>>
    /\ ingress = [k \in ClientKeys |-> 0]
    /\ bc_groups = {}
    /\ utc_queue = <<>>
    /\ bro_queue = <<>>
    /\ bro_pc = "submit"
    /\ cc_queue = <<>>
    /\ batched_into = <<>>
    /\ cli_started = <<>>
    /\ retry_calls = <<>>
    /\ returned = [k \in ClientKeys |-> {}]
    /\ restarted = FALSE

\* main.rs spawns one TransactionSigner on the pool.
Init ==
    /\ InitStore
    /\ instances = {1}
    /\ signer = [i \in instances |-> IdleSigner]

\* Two processes of the program sharing one database: two signer instances.
InitMulti ==
    /\ InitStore
    /\ instances = {1, 2}
    /\ signer = [i \in instances |-> IdleSigner]

(* ------------------------------ Ingress -------------------------------- *)
RECURSIVE SumOver(_, _)
SumOver(f, S) ==
    IF S = {} THEN 0
    ELSE LET k == CHOOSE x \in S : TRUE IN f[k] + SumOver(f, S \ {k})

InFlight == SumOver(ingress, ClientKeys)

\* The number of payments the clients submit in all.
PaymentCapacity == IF Cardinality(instances) = 1 THEN MaxPayments ELSE MaxPaymentsMulti

\* submit_payment, first half: the idempotency lookup.  A hit returns the
\* existing payment; a miss goes on to Payment::create.
SubmitLookup(client_id, account_name) ==
    LET found == get_by_client_id(payments, client_id, account_name)
        key == <<client_id, account_name>>
    IN /\ IF found # {}
          THEN /\ returned' = [returned EXCEPT ![key] = @ \cup {CHOOSE i \in found : \A j \in found : i <= j}]
               /\ UNCHANGED ingress
          ELSE /\ Len(payments) < PaymentCapacity
               /\ LET in_flight == InFlight
                  IN /\ in_flight < MaxRequests
                     /\ Len(payments) + in_flight < PaymentCapacity
               /\ ingress' = [ingress EXCEPT ![key] = @ + 1]
               /\ UNCHANGED returned
       /\ UNCHANGED <<store, instances, bc_groups, utc_queue, signer, bro_queue, bro_pc,
                      cc_queue, batched_into, cli_started, retry_calls>>
       /\ restarted' = FALSE

\* submit_payment, second half: Payment::create after a lookup miss.
SubmitCreate(client_id, account_name) ==
    LET key == <<client_id, account_name>>
        result == PaymentCreateResult(payments, client_id, account_name)
    IN /\ ingress[key] > 0
       /\ ingress' = [ingress EXCEPT ![key] = @ - 1]
       /\ IF result.kind = "Ok"
          THEN /\ payments' = PaymentCreate(payments, client_id, account_name)
               /\ batched_into' = Append(batched_into, NoBatch)
               /\ returned' = [returned EXCEPT ![key] = @ \cup {result.id}]
          ELSE UNCHANGED <<payments, batched_into, returned>>
       /\ UNCHANGED <<batches, instances, bc_groups, utc_queue, signer, bro_queue, bro_pc,
                      cc_queue, cli_started, retry_calls>>
       /\ restarted' = FALSE

(* ---------------------------- BatchCreator ----------------------------- *)
\* Group the receivable payments by account_name.
GroupByAccount(ps, ids) ==
    {g \in {{i \in ids : ps[i].account_name = a} : a \in Accounts} : g # {}}

BatchCreatorPoll ==
    /\ bc_groups = {}
    /\ bc_groups' = GroupByAccount(payments, find_receivable_payments(payments, BATCH_LIMIT))
    /\ bc_groups' # {}
    /\ UNCHANGED <<store, instances, ingress, utc_queue, signer, bro_queue, bro_pc, cc_queue,
                   history>>
    /\ restarted' = FALSE

BatchCreatorCreate ==
    \E g \in bc_groups :
        LET account_name == payments[CHOOSE i \in g : TRUE].account_name
            st == create_with_payments(payments, batches, account_name, g)
        IN /\ payments' = st.payments
           /\ batches' = st.batches
           /\ batched_into' = [i \in 1..Len(batched_into) |->
                                 IF i \in g THEN Len(batches) + 1 ELSE batched_into[i]]
           /\ cli_started' = Append(cli_started, {})
           /\ retry_calls' = Append(retry_calls, 0)
           /\ bc_groups' = bc_groups \ {g}
           /\ UNCHANGED <<instances, ingress, utc_queue, signer, bro_queue, bro_pc, cc_queue,
                          returned>>
           /\ restarted' = FALSE

(* -------------------------- UnsignedTxCreator -------------------------- *)
\* The effect of one store transaction st on the tables.
Commit(st) ==
    /\ payments' = st.payments
    /\ batches' = st.batches

\* A worker's call of increment_retry_count(batch_id, reason).
IncrementBatchRetry(batch_id, reason) ==
    /\ batch_id \in RetryingBatches
    /\ Commit(increment_retry_count(payments, batches, batch_id, reason))
    /\ retry_calls' = [retry_calls EXCEPT ![batch_id] = @ + 1]

\* A worker's call of update_to_failed(batch_id, reason).
FailBatch(batch_id, reason) ==
    /\ Commit(update_to_failed(payments, batches, batch_id, reason))
    /\ UNCHANGED retry_calls

UnsignedTxCreatorPoll ==
    /\ utc_queue = <<>>
    /\ utc_queue' = find_by_status(batches, "PENDING_BATCHING")
    /\ utc_queue' # <<>>
    /\ UNCHANGED <<store, instances, ingress, bc_groups, signer, bro_queue, bro_pc, cc_queue,
                   history>>
    /\ restarted' = FALSE

UnsignedTxCreatorProcess ==
    /\ utc_queue # <<>>
    /\ LET b == Head(utc_queue)
       IN \/ \E body \in UnsignedBodies :
                /\ batches' = update_to_awaiting_signature(batches, b, body)
                /\ UNCHANGED <<payments, retry_calls>>
          \/ \E reason \in TransientReasons : IncrementBatchRetry(b, reason)
          \/ \E reason \in ServiceRejections : FailBatch(b, reason)
    /\ utc_queue' = Tail(utc_queue)
    /\ UNCHANGED <<instances, ingress, bc_groups, signer, bro_queue, bro_pc, cc_queue,
                   batched_into, cli_started, returned>>
    /\ restarted' = FALSE

(* -------------------------- TransactionSigner -------------------------- *)
\* SignerPoll that also lists the batches left in SIGNING_IN_PROGRESS.
SignerPoll_also_in_progress(i) ==
    /\ signer[i].pc = "idle"
    /\ LET rows == SortedSeq({b \in BatchIds :
                       batches[b].status \in {"AWAITING_SIGNATURE", "SIGNING_IN_PROGRESS"}})
       IN /\ rows # <<>>
          /\ signer' = [signer EXCEPT ![i] =
                [pc |-> "claim",
                 queue |-> [k \in 1..Len(rows) |->
                              [id |-> rows[k],
                               unsigned_tx_json |-> batches[rows[k]].unsigned_tx_json]]]]
    /\ UNCHANGED <<store, instances, ingress, bc_groups, utc_queue, bro_queue, bro_pc,
                   cc_queue, history>>
    /\ restarted' = FALSE

\* process_transactions_to_sign, lines 32-33: the batch list of the tick.
SignerPoll(i) ==
    /\ signer[i].pc = "idle"
    /\ LET rows == find_by_status(batches, "AWAITING_SIGNATURE")
       IN /\ rows # <<>>
          /\ signer' = [signer EXCEPT ![i] =
                [pc |-> "claim",
                 queue |-> [k \in 1..Len(rows) |->
                              [id |-> rows[k],
                               unsigned_tx_json |-> batches[rows[k]].unsigned_tx_json]]]]
    /\ UNCHANGED <<store, instances, ingress, bc_groups, utc_queue, bro_queue, bro_pc,
                   cc_queue, history>>
    /\ restarted' = FALSE

\* line 37: update_to_signing_in_progress for the next batch of the list.
SignerClaim(i) ==
    /\ signer[i].pc = "claim"
    /\ batches' = update_to_signing_in_progress(batches, Head(signer[i].queue).id)
    /\ signer' = [signer EXCEPT ![i].pc = "prepare"]
    /\ UNCHANGED <<payments, instances, ingress, bc_groups, utc_queue, bro_queue, bro_pc,
                   cc_queue, history>>
    /\ restarted' = FALSE

\* lines 39-70: the unsigned transaction is written to the input file and the
\* wallet CLI is started on the blocking pool.
SignerStartCli(i) ==
    /\ signer[i].pc = "prepare"
    /\ Head(signer[i].queue).unsigned_tx_json # None
    /\ cli_started' = [cli_started EXCEPT ![Head(signer[i].queue).id] = @ \cup {i}]
    /\ signer' = [signer EXCEPT ![i].pc = "cli"]
    /\ UNCHANGED <<store, instances, ingress, bc_groups, utc_queue, bro_queue, bro_pc,
                   cc_queue, batched_into, retry_calls, returned>>
    /\ restarted' = FALSE

\* The rest of the tick after the head batch is done.
SignerNext(i) ==
    signer' = [signer EXCEPT ![i] =
        IF Tail(signer[i].queue) = <<>> THEN IdleSigner
        ELSE [pc |-> "claim", queue |-> Tail(signer[i].queue)]]

\* lines 60-70: what the wallet CLI task hands back: exit status 0 with the
\* contents of the output file, a non-zero exit status with the text of stderr,
\* or the error of a process that could not be run.
CliResults ==
    [kind : {"exit_zero"}, text : SignedBodies]
        \cup [kind : {"exit_nonzero"}, text : CliStderr]
        \cup [kind : {"spawn_error"}, text : SpawnErrors]

\* SignerPersist that counts an error of the CLI process as a retry.
SignerPersist_spawn_retries(i, result) ==
    /\ signer[i].pc = "cli"
    /\ LET b == Head(signer[i].queue).id
       IN CASE result.kind = "exit_zero" ->
                /\ batches' = update_to_awaiting_broadcast(batches, b, result.text)
                /\ UNCHANGED <<payments, retry_calls>>
            [] result.kind = "exit_nonzero" -> FailBatch(b, result.text)
            [] result.kind = "spawn_error" ->
                IncrementBatchRetry(b, "CLI execution error: " \o result.text)
    /\ SignerNext(i)
    /\ UNCHANGED <<instances, ingress, bc_groups, utc_queue, bro_queue, bro_pc, cc_queue,
                   batched_into, cli_started, returned>>
    /\ restarted' = FALSE

\* lines 72-93: the result of the CLI is persisted for the head batch.
SignerPersist(i, result) ==
    /\ signer[i].pc = "cli"
    /\ LET b == Head(signer[i].queue).id
       IN CASE result.kind = "exit_zero" ->
                /\ batches' = update_to_awaiting_broadcast(batches, b, result.text)
                /\ UNCHANGED <<payments, retry_calls>>
            [] result.kind = "exit_nonzero" -> FailBatch(b, result.text)
            [] result.kind = "spawn_error" ->
                FailBatch(b, "CLI execution error: " \o result.text)
    /\ SignerNext(i)
    /\ UNCHANGED <<instances, ingress, bc_groups, utc_queue, bro_queue, bro_pc, cc_queue,
                   batched_into, cli_started, returned>>
    /\ restarted' = FALSE

SignerCliExit(i) ==
    \E result \in CliResults : SignerPersist(i, result)

\* SignerError in which the error ends the worker loop instead of the tick.
SignerError_stops_loop(i) ==
    /\ signer[i].pc # "idle"
    /\ signer[i].pc # "stopped"
    /\ signer' = [signer EXCEPT ![i] = [pc |-> "stopped", queue |-> <<>>]]
    /\ UNCHANGED <<store, instances, ingress, bc_groups, utc_queue, bro_queue, bro_pc,
                   cc_queue, history>>
    /\ restarted' = FALSE

\* Every `?` of process_transactions_to_sign: a failed store call, a batch
\* without unsigned_tx_json, a temporary-file error, a join error or an
\* unreadable output file ends the tick; run() logs the error and loops.
SignerError(i) ==
    /\ signer[i].pc # "idle"
    /\ signer' = [signer EXCEPT ![i] = IdleSigner]
    /\ UNCHANGED <<store, instances, ingress, bc_groups, utc_queue, bro_queue, bro_pc,
                   cc_queue, history>>
    /\ restarted' = FALSE

(* ----------------------------- Broadcaster ----------------------------- *)
BroadcasterPoll ==
    /\ bro_queue = <<>>
    /\ bro_queue' = find_by_status(batches, "AWAITING_BROADCAST")
    /\ bro_queue' # <<>>
    /\ bro_pc' = "submit"
    /\ UNCHANGED <<store, instances, ingress, bc_groups, utc_queue, signer, cc_queue, history>>
    /\ restarted' = FALSE

\* The signed transaction is submitted to the base node.
BroadcasterSubmit ==
    /\ bro_queue # <<>>
    /\ bro_pc = "submit"
    /\ LET b == Head(bro_queue)
       IN \/ /\ batches' = update_to_broadcasting(batches, b)
             /\ bro_pc' = "accepted"
             /\ UNCHANGED <<payments, retry_calls, bro_queue>>
          \/ /\ \E reason \in TransientReasons : IncrementBatchRetry(b, reason)
             /\ bro_queue' = Tail(bro_queue)
             /\ UNCHANGED bro_pc
          \/ /\ \E reason \in NodeRejections : FailBatch(b, reason)
             /\ bro_queue' = Tail(bro_queue)
             /\ UNCHANGED bro_pc
    /\ UNCHANGED <<instances, ingress, bc_groups, utc_queue, signer, cc_queue, batched_into,
                   cli_started, returned>>
    /\ restarted' = FALSE

\* The base node accepted: the batch awaits confirmation.
BroadcasterAccepted ==
    /\ bro_queue # <<>>
    /\ bro_pc = "accepted"
    /\ batches' = update_to_awaiting_confirmation(batches, Head(bro_queue))
    /\ bro_queue' = Tail(bro_queue)
    /\ bro_pc' = "submit"
    /\ UNCHANGED <<payments, instances, ingress, bc_groups, utc_queue, signer, cc_queue,
                   history>>
    /\ restarted' = FALSE

(* ------------------------- ConfirmationChecker ------------------------- *)
ConfirmationCheckerPoll ==
    /\ cc_queue = <<>>
    /\ cc_queue' = find_by_status(batches, "AWAITING_CONFIRMATION")
    /\ cc_queue' # <<>>
    /\ UNCHANGED <<store, instances, ingress, bc_groups, utc_queue, signer, bro_queue, bro_pc,
                   history>>
    /\ restarted' = FALSE

\* The cascade transaction of a confirmation: the batch row and its payments.
ConfirmBatch(ps, bs, batch_id, report) ==
    [batches |-> update_to_confirmed(bs, batch_id, report.height, report.header_hash,
                                     report.timestamp),
     payments |-> update_payments_to_confirmed(ps, find_by_batch_id(ps, batch_id))]

ConfirmationCheckerProcess ==
    /\ cc_queue # <<>>
    /\ LET b == Head(cc_queue)
       IN \/ \E report \in MinedReports :
                /\ Commit(ConfirmBatch(payments, batches, b, report))
                /\ UNCHANGED retry_calls
          \/ \E reason \in TransientReasons : IncrementBatchRetry(b, reason)
          \/ \E reason \in NodeRejections : FailBatch(b, reason)
    /\ cc_queue' = Tail(cc_queue)
    /\ UNCHANGED <<instances, ingress, bc_groups, utc_queue, signer, bro_queue, bro_pc,
                   batched_into, cli_started, returned>>
    /\ restarted' = FALSE

\* Not yet mined: nothing is written for the batch.
ConfirmationCheckerNotMined ==
    /\ cc_queue # <<>>
    /\ cc_queue' = Tail(cc_queue)
    /\ UNCHANGED <<store, instances, ingress, bc_groups, utc_queue, signer, bro_queue, bro_pc,
                   history>>
    /\ restarted' = FALSE

(* ------------------------- failures and restart ------------------------ *)
\* A storage failure ends the current tick of one of the polling workers.
TickAbort ==
    /\ \/ /\ bc_groups # {}
          /\ bc_groups' = {}
          /\ UNCHANGED <<utc_queue, bro_queue, bro_pc, cc_queue>>
       \/ /\ utc_queue # <<>>
          /\ utc_queue' = <<>>
          /\ UNCHANGED <<bc_groups, bro_queue, bro_pc, cc_queue>>
       \/ /\ bro_queue # <<>>
          /\ bro_queue' = <<>>
          /\ bro_pc' = "submit"
          /\ UNCHANGED <<bc_groups, utc_queue, cc_queue>>
       \/ /\ cc_queue # <<>>
          /\ cc_queue' = <<>>
          /\ UNCHANGED <<bc_groups, utc_queue, bro_queue, bro_pc>>
    /\ UNCHANGED <<store, instances, ingress, signer, history>>
    /\ restarted' = FALSE

\* The process is killed and started again: only the store survives.
Crash ==
    /\ \/ bc_groups # {} \/ utc_queue # <<>> \/ bro_queue # <<>> \/ cc_queue # <<>>
       \/ \E k \in ClientKeys : ingress[k] > 0
       \/ \E i \in instances : signer[i].pc # "idle"
    /\ ingress' = [k \in ClientKeys |-> 0]
    /\ bc_groups' = {}
    /\ utc_queue' = <<>>
    /\ bro_queue' = <<>>
    /\ bro_pc' = "submit"
    /\ cc_queue' = <<>>
    /\ signer' = [i \in instances |-> IdleSigner]
    /\ UNCHANGED <<store, instances, history>>
    /\ restarted' = TRUE

Next ==
    \/ \E k \in ClientKeys : SubmitLookup(k[1], k[2])
    \/ \E k \in ClientKeys : SubmitCreate(k[1], k[2])
    \/ BatchCreatorPoll
    \/ BatchCreatorCreate
    \/ UnsignedTxCreatorPoll
    \/ UnsignedTxCreatorProcess
    \/ \E i \in instances : SignerPoll(i)
    \/ \E i \in instances : SignerClaim(i)
    \/ \E i \in instances : SignerStartCli(i)
    \/ \E i \in instances : SignerCliExit(i)
    \/ \E i \in instances : SignerError(i)
    \/ BroadcasterPoll
    \/ BroadcasterSubmit
    \/ BroadcasterAccepted
    \/ ConfirmationCheckerPoll
    \/ ConfirmationCheckerProcess
    \/ ConfirmationCheckerNotMined
    \/ TickAbort
    \/ Crash

Spec == Init /\ [][Next]_vars

SpecMulti == InitMulti /\ [][Next]_vars

(* ------------------------------ happy path ------------------------------ *)
\* Every external call succeeds: no retry is counted and no batch is failed.
AllCallsSucceed ==
    /\ retry_calls' = retry_calls
    /\ \A b \in 1..Len(batches') : batches'[b].status # "FAILED"

\* The unsigned-transaction service returns a transaction.
UnsignedTxReturned == UnsignedTxCreatorProcess /\ AllCallsSucceed

\* The wallet CLI exits with status 0.
CliExitZero(i) == \E s \in SignedBodies : SignerPersist(i, [kind |-> "exit_zero", text |-> s])

\* The base node accepts the transaction.
BroadcastAccepted == BroadcasterSubmit /\ AllCallsSucceed

\* The base node reports the transaction mined at sufficient depth.
ReportedMined == ConfirmationCheckerProcess /\ AllCallsSucceed

NextHappy ==
    \/ \E k \in ClientKeys : SubmitLookup(k[1], k[2])
    \/ \E k \in ClientKeys : SubmitCreate(k[1], k[2])
    \/ BatchCreatorPoll
    \/ BatchCreatorCreate
    \/ UnsignedTxCreatorPoll
    \/ UnsignedTxReturned
    \/ \E i \in instances : SignerPoll(i)
    \/ \E i \in instances : SignerClaim(i)
    \/ \E i \in instances : SignerStartCli(i)
    \/ \E i \in instances : CliExitZero(i)
    \/ BroadcasterPoll
    \/ BroadcastAccepted
    \/ BroadcasterAccepted
    \/ ConfirmationCheckerPoll
    \/ ReportedMined

\* Each worker is a loop that ticks on its interval for as long as the process
\* runs, and a tick runs each of its steps to the end.
WorkersKeepTicking ==
    /\ WF_vars(BatchCreatorPoll)
    /\ WF_vars(BatchCreatorCreate)
    /\ WF_vars(UnsignedTxCreatorPoll)
    /\ WF_vars(UnsignedTxReturned)
    /\ WF_vars(\E i \in instances : SignerPoll(i))
    /\ WF_vars(\E i \in instances : SignerClaim(i))
    /\ WF_vars(\E i \in instances : SignerStartCli(i))
    /\ WF_vars(\E i \in instances : CliExitZero(i))
    /\ WF_vars(BroadcasterPoll)
    /\ WF_vars(BroadcastAccepted)
    /\ WF_vars(BroadcasterAccepted)
    /\ WF_vars(ConfirmationCheckerPoll)
    /\ WF_vars(ReportedMined)

SpecHappy == Init /\ [][NextHappy]_vars /\ WorkersKeepTicking

(* ------------------------------- claims -------------------------------- *)
Terminal == {"CONFIRMED", "FAILED"}

\* C1: every payment whose payment_batch_id is a FAILED batch is FAILED and
\* carries the batch's error_message as its failure_reason, in every state
\* (the batch row and its payments are failed in one step).
C1_FailedCascade ==
    \A b \in BatchIds :
        batches[b].status = "FAILED" =>
            \A p \in PaymentIds :
                payments[p].payment_batch_id = b =>
                    /\ payments[p].status = "FAILED"
                    /\ payments[p].failure_reason = batches[b].error_message

C1_Witness ==
    \E b \in BatchIds :
        /\ batches[b].status = "FAILED"
        /\ \E p \in PaymentIds : payments[p].payment_batch_id = b

\* C2: every payment that was batched into a CONFIRMED batch is CONFIRMED, and
\* a payment is CONFIRMED only when its batch is, in every state (the batch and
\* its payments are confirmed in one step).
C2_ConfirmedCascade ==
    /\ \A b \in BatchIds :
          batches[b].status = "CONFIRMED" =>
              \A p \in PaymentIds : batched_into[p] = b => payments[p].status = "CONFIRMED"
    /\ \A p \in PaymentIds :
          payments[p].status = "CONFIRMED" =>
              /\ batched_into[p] # NoBatch
              /\ batches[batched_into[p]].status = "CONFIRMED"

C2_Witness ==
    \E b \in BatchIds :
        /\ batches[b].status = "CONFIRMED"
        /\ batches[b].mined_header_hash = "abcd"
        /\ \E p \in PaymentIds : batched_into[p] = b

\* C3: the wallet CLI is never started for the same batch by two signer
\* instances.
C3_SingleClaimant ==
    \A b \in BatchIds : Cardinality(cli_started[b]) <= 1

\* The edges of the batch status graph.
BatchEdges ==
    {<<"PENDING_BATCHING", "AWAITING_SIGNATURE">>,
     <<"AWAITING_SIGNATURE", "SIGNING_IN_PROGRESS">>,
     <<"SIGNING_IN_PROGRESS", "AWAITING_BROADCAST">>,
     <<"AWAITING_BROADCAST", "BROADCASTING">>,
     <<"BROADCASTING", "AWAITING_CONFIRMATION">>,
     <<"AWAITING_CONFIRMATION", "CONFIRMED">>}
    \cup {<<s, "FAILED">> : s \in PaymentBatchStatus \ Terminal}

\* C4: every change of a batch's status is an edge of the status graph: one
\* step forward along the pipeline or from a non-terminal status to FAILED.
C4_BatchGraph ==
    [][\A b \in BatchIds :
          batches'[b].status # batches[b].status =>
              <<batches[b].status, batches'[b].status>> \in BatchEdges]_vars

C4_Witness ==
    /\ \E b \in BatchIds : batches[b].status = "CONFIRMED"
    /\ \E b \in BatchIds : batches[b].status = "FAILED" /\ batches[b].signed_tx_json # None

PaymentEdges ==
    {<<"RECEIVED", "BATCHED">>, <<"BATCHED", "CONFIRMED">>,
     <<"RECEIVED", "FAILED">>, <<"BATCHED", "FAILED">>}

\* C5: every change of a payment's status goes along RECEIVED -> BATCHED ->
\* CONFIRMED or from RECEIVED or BATCHED to FAILED.
C5_PaymentMonotone ==
    [][\A p \in PaymentIds :
          payments'[p].status # payments[p].status =>
              <<payments[p].status, payments'[p].status>> \in PaymentEdges]_vars

C5_Witness ==
    /\ \E p \in PaymentIds : payments[p].status = "CONFIRMED"
    /\ \E p \in PaymentIds : payments[p].status = "FAILED"

\* C6: 0 <= retry_count <= MAX_RETRIES for every batch, retry_count <
\* MAX_RETRIES for every non-terminal batch, and a batch with retry_count =
\* MAX_RETRIES is FAILED.
C6_RetryBound ==
    \A b \in BatchIds :
        /\ 0 <= batches[b].retry_count
        /\ batches[b].retry_count <= MAX_RETRIES
        /\ batches[b].status \notin Terminal => batches[b].retry_count < MAX_RETRIES
        /\ batches[b].retry_count = MAX_RETRIES => batches[b].status = "FAILED"

C6_Witness ==
    \E b \in BatchIds :
        /\ batches[b].retry_count = MAX_RETRIES - 1
        /\ batches[b].status \notin Terminal

\* C7: of the increment_retry_count calls on a batch, the first MAX_RETRIES - 1
\* leave its status unchanged and the MAX_RETRIES-th moves it to FAILED with the
\* reason of that call as error_message and as failure_reason of its payments.
C7_TenthRetryFails ==
    [][retry_calls' # retry_calls =>
          \A b \in BatchIds : \A reason \in TransientReasons :
              IncrementBatchRetry(b, reason) =>
                  IF retry_calls[b] < MAX_RETRIES - 1
                  THEN /\ batches'[b].status = batches[b].status
                       /\ batches'[b].status # "FAILED"
                       /\ payments' = payments
                  ELSE /\ retry_calls[b] = MAX_RETRIES - 1
                       /\ batches'[b].status = "FAILED"
                       /\ batches'[b].error_message = reason
                       /\ \A p \in PaymentIds :
                             batched_into[p] = b =>
                                 /\ payments'[p].status = "FAILED"
                                 /\ payments'[p].failure_reason = reason]_vars

C7_Witness ==
    \E b \in BatchIds :
        /\ retry_calls[b] = MAX_RETRIES
        /\ batches[b].status = "FAILED"
        /\ batches[b].error_message \in TransientReasons
        /\ \E p \in PaymentIds : batched_into[p] = b /\ payments[p].status = "FAILED"

\* C8: every submit_payment for a client key returns the same payment id, the
\* payment of that key; a submission changes no existing payment; and there is
\* at most one payment per (client_id, account_name).
C8_SubmitIdempotent ==
    [][(returned' # returned \/ ingress' # ingress \/ Len(payments') # Len(payments)) =>
          /\ \A k \in ClientKeys :
                /\ Cardinality(returned'[k]) <= 1
                /\ returned'[k] \subseteq get_by_client_id(payments', k[1], k[2])
                /\ Cardinality({i \in 1..Len(payments') :
                                   /\ payments'[i].client_id = k[1]
                                   /\ payments'[i].account_name = k[2]}) <= 1
          /\ \A p \in PaymentIds : payments'[p] = payments[p]]_vars

C8_Witness ==
    \E k \in ClientKeys :
        /\ returned[k] # {}
        /\ \E p \in returned[k] : payments[p].status # "RECEIVED"
        /\ \E k2 \in ClientKeys : k2 # k /\ k2[1] = k[1] /\ returned[k2] # {}

\* C9: a payment has a payment_batch_id if and only if it is not RECEIVED.
C9_BatchIdIffNotReceived ==
    \A p \in PaymentIds :
        (payments[p].payment_batch_id # NoBatch) <=> (payments[p].status # "RECEIVED")

\* C10: every batch in a non-terminal status has at least one payment whose
\* payment_batch_id is that batch, after every step; and the step that creates
\* a batch leaves it PENDING_BATCHING with retry_count 0 and with its listed
\* payments BATCHED into it.
C10_NonTerminalHasMember ==
    [][/\ \A b \in 1..Len(batches') :
             batches'[b].status \notin Terminal =>
                 \E p \in 1..Len(payments') : payments'[p].payment_batch_id = b
       /\ \A b \in 1..Len(batches') :
             b \notin BatchIds =>
                 /\ batches'[b].status = "PENDING_BATCHING"
                 /\ batches'[b].retry_count = 0
                 /\ \E p \in PaymentIds :
                       payments[p].status = "RECEIVED" /\ payments'[p].payment_batch_id = b
                 /\ \A p \in PaymentIds :
                       payments'[p].payment_batch_id = b => payments'[p].status = "BATCHED"]_vars

C10_Witness ==
    \E b \in BatchIds :
        /\ batches[b].status = "PENDING_BATCHING"
        /\ Cardinality({p \in PaymentIds : payments[p].payment_batch_id = b}) = 2

\* The payments with status RECEIVED.
ReceivedPayments(ps) == {p \in 1..Len(ps) : ps[p].status = "RECEIVED"}

\* C11: a poll of the BatchCreator groups exactly the RECEIVED payments, one
\* group per distinct account_name among them; each create of the tick adds
\* one batch with the account of its group and moves every payment of the
\* group to BATCHED in that batch, so a tick that runs to its end leaves none
\* of the polled payments RECEIVED; and in every state the payments of a batch
\* have the batch's account_name.
C11_OneBatchPerAccount ==
    [][(bc_groups' # bc_groups \/ payments' # payments) =>
        /\ \A p \in 1..Len(payments') :
              /\ payments'[p].payment_batch_id # NoBatch =>
                    payments'[p].account_name =
                        batches'[payments'[p].payment_batch_id].account_name
              /\ batched_into'[p] # NoBatch =>
                    payments'[p].account_name = batches'[batched_into'[p]].account_name
        /\ \A g \in bc_groups' : \A p \in g : payments'[p].status = "RECEIVED"
        /\ \A g, h \in bc_groups' : g # h => g \cap h = {}
        /\ (bc_groups = {} /\ bc_groups' # {}) =>
              LET received == ReceivedPayments(payments)
              IN /\ UNION bc_groups' = received
                 /\ Cardinality(bc_groups') =
                        Cardinality({payments[p].account_name : p \in received})
                 /\ \A g \in bc_groups' : \A p, q \in g :
                        payments[p].account_name = payments[q].account_name
        /\ Len(batches') > Len(batches) =>
              \E g \in bc_groups :
                 /\ bc_groups' = bc_groups \ {g}
                 /\ Len(batches') = Len(batches) + 1
                 /\ \A p \in g :
                       /\ payments'[p].status = "BATCHED"
                       /\ payments'[p].payment_batch_id = Len(batches')
                       /\ payments'[p].account_name = batches'[Len(batches')].account_name
                 /\ \A p \in PaymentIds \ g : payments'[p] = payments[p]]_vars

\* A tick over two payments of two accounts has run to its end: two batches,
\* one per account, each payment BATCHED in the batch of its own account.
C11_Witness ==
    /\ Len(payments) = 2 /\ Len(batches) = 2
    /\ bc_groups = {}
    /\ batches[1].account_name # batches[2].account_name
    /\ \A b \in BatchIds : batches[b].status = "PENDING_BATCHING"
    /\ \A p \in PaymentIds :
          /\ payments[p].status = "BATCHED"
          /\ payments[p].account_name = batches[payments[p].payment_batch_id].account_name
    /\ payments[1].payment_batch_id # payments[2].payment_batch_id

\* C12: a status-advancing update that a signer issues for a batch whose
\* status is no longer the one the update starts from (AWAITING_SIGNATURE for
\* the claim of the batch, SIGNING_IN_PROGRESS for the result of the CLI),
\* because another instance has advanced or failed the batch since the poll,
\* changes nothing on that batch.
C12_UpdateKeyedOnSource ==
    [][batches' # batches =>
        \A i \in instances :
           /\ (SignerClaim(i)
                 /\ batches[Head(signer[i].queue).id].status # "AWAITING_SIGNATURE")
              => batches'[Head(signer[i].queue).id] = batches[Head(signer[i].queue).id]
           /\ (SignerCliExit(i)
                 /\ batches[Head(signer[i].queue).id].status # "SIGNING_IN_PROGRESS")
              => batches'[Head(signer[i].queue).id] = batches[Head(signer[i].queue).id]]_vars

\* The batches with this status.
InStatus(bs, status) == {b \in 1..Len(bs) : bs[b].status = status}

\* The elements of a sequence.
Range(q) == {q[k] : k \in 1..Len(q)}

\* C13: a restart of the process leaves every row of the store as it was
\* persisted and every worker at the start of a tick; the poll that starts a
\* worker's tick returns exactly the batches in the status the worker polls
\* (the signer's rows with the persisted unsigned_tx_json), so a batch waiting
\* in that status is picked up again; and each processing step acts on a batch
\* that is still in the polled status, so a persisted transition is neither
\* lost nor made a second time.
C13_RestartResumes ==
    [][/\ restarted' =>
             /\ payments' = payments /\ batches' = batches
             /\ bc_groups' = {} /\ utc_queue' = <<>> /\ bro_queue' = <<>> /\ cc_queue' = <<>>
             /\ \A i \in instances : signer'[i] = IdleSigner
       /\ (utc_queue = <<>> /\ utc_queue' # <<>>) =>
             Range(utc_queue') = InStatus(batches, "PENDING_BATCHING")
       /\ (bro_queue = <<>> /\ bro_queue' # <<>>) =>
             Range(bro_queue') = InStatus(batches, "AWAITING_BROADCAST")
       /\ (cc_queue = <<>> /\ cc_queue' # <<>>) =>
             Range(cc_queue') = InStatus(batches, "AWAITING_CONFIRMATION")
       /\ \A i \in instances :
             (signer[i].pc = "idle" /\ signer'[i].pc = "claim") =>
                /\ {r.id : r \in Range(signer'[i].queue)} = InStatus(batches, "AWAITING_SIGNATURE")
                /\ \A r \in Range(signer'[i].queue) :
                      r.unsigned_tx_json = batches[r.id].unsigned_tx_json
       /\ batches' # batches =>
             /\ (utc_queue # <<>> /\ utc_queue' = Tail(utc_queue)) =>
                   batches[Head(utc_queue)].status = "PENDING_BATCHING"
             /\ (bro_queue # <<>> /\ bro_pc = "submit") =>
                   batches[Head(bro_queue)].status = "AWAITING_BROADCAST"
             /\ (bro_queue # <<>> /\ bro_pc = "accepted") =>
                   batches[Head(bro_queue)].status = "BROADCASTING"
             /\ (cc_queue # <<>> /\ cc_queue' = Tail(cc_queue)) =>
                   batches[Head(cc_queue)].status = "AWAITING_CONFIRMATION"
             /\ \A i \in instances :
                   /\ (signer[i].pc = "claim" /\ signer'[i].pc = "prepare") =>
                         batches[Head(signer[i].queue).id].status = "AWAITING_SIGNATURE"
                   /\ (signer[i].pc = "cli" /\ signer'[i] # signer[i]) =>
                         batches[Head(signer[i].queue).id].status = "SIGNING_IN_PROGRESS"]_vars

\* The process has just been restarted while a batch waits in
\* AWAITING_BROADCAST with its signed_tx_json persisted.
C13_Witness ==
    /\ restarted
    /\ \E b \in BatchIds :
          /\ batches[b].status = "AWAITING_BROADCAST"
          /\ batches[b].signed_tx_json \in SignedBodies

\* C14: on the happy path (every worker keeps ticking, the unsigned-tx
\* service returns a transaction, the wallet CLI exits 0, the base node
\* accepts and reports the transaction mined) every submitted payment
\* eventually is CONFIRMED and so is its batch, which carries the reported
\* mined_height 42, the hex text "abcd" of the header hash bytes and the
\* mined_timestamp 1700000000.
C14_HappyPathConfirms ==
    \A p \in 1..MaxPayments :
        (Len(payments) >= p) ~>
            (/\ Len(payments) >= p
             /\ payments[p].status = "CONFIRMED"
             /\ batched_into[p] # NoBatch
             /\ batches[batched_into[p]].status = "CONFIRMED"
             /\ batches[batched_into[p]].mined_height = 42
             /\ batches[batched_into[p]].mined_header_hash = "abcd"
             /\ batches[batched_into[p]].mined_timestamp = 1700000000)

\* Two submitted payments of two accounts are CONFIRMED, each in its own
\* CONFIRMED batch with the mined fields of the report.
C14_Witness ==
    /\ Len(payments) = 2 /\ Len(batches) = 2
    /\ \A p \in PaymentIds : payments[p].status = "CONFIRMED"
    /\ \A b \in BatchIds :
          /\ batches[b].status = "CONFIRMED"
          /\ batches[b].mined_height = 42
          /\ batches[b].mined_header_hash = "abcd"
          /\ batches[b].mined_timestamp = 1700000000

\* C15: when the signer persists the result of the wallet CLI for a batch:
\* on exit status 0 the batch is AWAITING_BROADCAST with signed_tx_json the
\* contents of the output file and its payments stay BATCHED; on a non-zero
\* exit status the batch is FAILED with error_message the text of stderr and
\* all its payments are FAILED with that text as failure_reason; retry_count
\* is not incremented in either case.
C15_SignerOutcome ==
    [][batches' # batches =>
        \A i \in instances :
           \A result \in {r \in CliResults : r.kind \in {"exit_zero", "exit_nonzero"}} :
              SignerPersist(i, result) =>
                 LET b == Head(signer[i].queue).id
                     members == {p \in PaymentIds : batched_into[p] = b}
                 IN /\ batches'[b].retry_count = batches[b].retry_count
                    /\ \A c \in BatchIds \ {b} : batches'[c] = batches[c]
                    /\ \A p \in PaymentIds \ members : payments'[p] = payments[p]
                    /\ IF result.kind = "exit_zero"
                       THEN /\ batches'[b].status = "AWAITING_BROADCAST"
                            /\ batches'[b].signed_tx_json = result.text
                            /\ batches'[b].error_message = None
                            /\ \A p \in members :
                                  /\ payments'[p] = payments[p]
                                  /\ payments'[p].status = "BATCHED"
                       ELSE /\ batches'[b].status = "FAILED"
                            /\ batches'[b].error_message = result.text
                            /\ \A p \in members :
                                  /\ payments'[p].status = "FAILED"
                                  /\ payments'[p].failure_reason = result.text]_vars

\* The signer has persisted both results: one batch signed and awaiting
\* broadcast with its payment BATCHED, another failed with the CLI's stderr.
C15_Witness ==
    \E b, c \in BatchIds :
       /\ batches[b].status = "AWAITING_BROADCAST"
       /\ batches[b].signed_tx_json \in SignedBodies
       /\ \E p \in PaymentIds : batched_into[p] = b /\ payments[p].status = "BATCHED"
       /\ batches[c].status = "FAILED"
       /\ batches[c].error_message \in CliStderr
       /\ batches[c].retry_count = 0
       /\ \E p \in PaymentIds :
             /\ batched_into[p] = c
             /\ payments[p].status = "FAILED"
             /\ payments[p].failure_reason = batches[c].error_message

C17_CreateRejectsNonReceived ==
    [][/\ \A account_name \in Accounts : \A payment_ids \in SUBSET PaymentIds :
             (\E p \in payment_ids : payments[p].status # "RECEIVED") =>
                create_with_payments(payments, batches, account_name, payment_ids)
                    = [batches |-> batches, payments |-> payments]
       /\ \A p \in PaymentIds :
             payments[p].payment_batch_id # NoBatch =>
                payments'[p].payment_batch_id \in {payments[p].payment_batch_id, NoBatch}]_vars

\* C18: a payment's failure_reason is set exactly when the payment is FAILED,
\* and a batch's error_message is set only when the batch is FAILED (a retry
\* that does not fail the batch records no error_message).
C18_ReasonOnlyWhenFailed ==
    /\ \A p \in PaymentIds :
          (payments[p].failure_reason # None) <=> (payments[p].status = "FAILED")
    /\ \A b \in BatchIds :
          batches[b].error_message # None => batches[b].status = "FAILED"

\* A batch that has been retried and has not failed carries no error_message,
\* while a payment of a failed batch carries its failure_reason.
C18_Witness ==
    /\ \E b \in BatchIds :
          /\ batches[b].retry_count > 0
          /\ batches[b].status \notin Terminal
          /\ batches[b].error_message = None
    /\ \E p \in PaymentIds :
          /\ payments[p].status = "FAILED"
          /\ payments[p].failure_reason # None
    /\ \E p \in PaymentIds :
          /\ payments[p].status = "BATCHED"
          /\ payments[p].failure_reason = None

\* C19: a batch has mined_height, mined_header_hash and mined_timestamp set
\* exactly when its status is CONFIRMED: all three are set on a CONFIRMED
\* batch and none of them on any other batch, and a step that writes one of
\* them is the step that makes the batch CONFIRMED.
C19_MinedIffConfirmed ==
    [][batches' # batches =>
        /\ \A b \in 1..Len(batches') :
              IF batches'[b].status = "CONFIRMED"
              THEN /\ batches'[b].mined_height # NoneInt
                   /\ batches'[b].mined_header_hash # None
                   /\ batches'[b].mined_timestamp # NoneInt
              ELSE /\ batches'[b].mined_height = NoneInt
                   /\ batches'[b].mined_header_hash = None
                   /\ batches'[b].mined_timestamp = NoneInt
        /\ \A b \in BatchIds :
              (\/ batches'[b].mined_height # batches[b].mined_height
               \/ batches'[b].mined_header_hash # batches[b].mined_header_hash
               \/ batches'[b].mined_timestamp # batches[b].mined_timestamp) =>
                 /\ batches[b].status = "AWAITING_CONFIRMATION"
                 /\ batches'[b].status = "CONFIRMED"]_vars

\* A CONFIRMED batch with its three mined fields beside a batch that is not
\* confirmed and has none.
C19_Witness ==
    \E b, c \in BatchIds :
       /\ batches[b].status = "CONFIRMED"
       /\ batches[b].mined_height = 42
       /\ batches[b].mined_header_hash = "abcd"
       /\ batches[b].mined_timestamp = 1700000000
       /\ batches[c].status \in {"AWAITING_CONFIRMATION", "FAILED"}
       /\ batches[c].mined_height = NoneInt
       /\ batches[c].mined_header_hash = None
       /\ batches[c].mined_timestamp = NoneInt

\* C20: a call of increment_retry_count that does not exhaust the budget
\* (retry_count + 1 < MAX_RETRIES) raises the batch's retry_count by exactly 1
\* and leaves the batch's status, unsigned_tx_json, signed_tx_json,
\* error_message and mined fields, every payment and every other batch as
\* they were.
C20_RetryFrame ==
    [][retry_calls' # retry_calls =>
        \A b \in BatchIds : \A reason \in TransientReasons :
           (IncrementBatchRetry(b, reason) /\ batches[b].retry_count + 1 < MAX_RETRIES) =>
              /\ batches' = [batches EXCEPT ![b].retry_count = batches[b].retry_count + 1]
              /\ payments' = payments]_vars

\* The first batch has been retried and is still in the pipeline with its
\* unsigned transaction, beside a second batch that has never been retried.
C20_Witness ==
    /\ Len(batches) = 2
    /\ batches[1].retry_count >= 2
    /\ batches[1].retry_count < MAX_RETRIES
    /\ batches[1].status = "AWAITING_BROADCAST"
    /\ batches[1].unsigned_tx_json # None
    /\ batches[1].signed_tx_json # None
    /\ batches[1].error_message = None
    /\ batches[2].retry_count = 0
    /\ batches[2].status \notin Terminal

\* The error_message of a batch whose wallet CLI process could not be run.
SpawnFailureMessages == {"CLI execution error: " \o e : e \in SpawnErrors}

\* C21: when the wallet CLI process cannot be run, the signer moves the batch
\* straight to FAILED with the error_message "CLI execution error: " followed
\* by the error, fails its payments with the same reason and leaves
\* retry_count as it was; and a batch failed this way is not taken up again:
\* its row stays as it is and the CLI is not started for it a second time.
C21_SpawnErrorFails ==
    [][(batches' # batches \/ cli_started' # cli_started) =>
        /\ \A i \in instances : \A e \in SpawnErrors :
              SignerPersist(i, [kind |-> "spawn_error", text |-> e]) =>
                 LET b == Head(signer[i].queue).id
                 IN /\ batches'[b].status = "FAILED"
                    /\ batches'[b].error_message = "CLI execution error: " \o e
                    /\ batches'[b].retry_count = batches[b].retry_count
                    /\ retry_calls' = retry_calls
                    /\ \A p \in PaymentIds :
                          batched_into[p] = b =>
                             /\ payments'[p].status = "FAILED"
                             /\ payments'[p].failure_reason = "CLI execution error: " \o e
        /\ \A b \in BatchIds :
              (batches[b].status = "FAILED"
                 /\ batches[b].error_message \in SpawnFailureMessages) =>
                 /\ batches'[b] = batches[b]
                 /\ cli_started'[b] = cli_started[b]]_vars

\* A batch failed by an error of the CLI process on its first attempt, with
\* its payment failed for the same reason.
C21_Witness ==
    \E b \in BatchIds :
       /\ batches[b].status = "FAILED"
       /\ batches[b].error_message \in SpawnFailureMessages
       /\ batches[b].retry_count = 0
       /\ Cardinality(cli_started[b]) = 1
       /\ \E p \in PaymentIds :
             /\ batched_into[p] = b
             /\ payments[p].status = "FAILED"
             /\ payments[p].failure_reason = batches[b].error_message

\* C22: an error of the wallet CLI process is a transient error: the signer
\* records it through increment_retry_count, the batch keeps a status from
\* which the signer takes it up again on a later tick, and the batch becomes
\* FAILED only with the call that exhausts MAX_RETRIES.
C22_SpawnErrorRetried ==
    [][batches' # batches =>
        \A i \in instances : \A e \in SpawnErrors :
           SignerPersist(i, [kind |-> "spawn_error", text |-> e]) =>
              LET b == Head(signer[i].queue).id
              IN /\ retry_calls'[b] = retry_calls[b] + 1
                 /\ IF retry_calls'[b] < MAX_RETRIES
                    THEN /\ batches'[b].status = "AWAITING_SIGNATURE"
                         /\ batches'[b].retry_count = batches[b].retry_count + 1
                    ELSE batches'[b].status = "FAILED"]_vars

\* A signer instance is between the claim of batch b and the persisting of
\* its result.
SignerHolds(sg, b) ==
    \E i \in DOMAIN sg : sg[i].pc \in {"prepare", "cli"} /\ Head(sg[i].queue).id = b

\* C23: a batch that is SIGNING_IN_PROGRESS while no signer is working on it
\* (the process died, or the tick ended, between the claim and the result)
\* stays exactly as it is and its payments stay BATCHED: no step writes the
\* batch or its payments again and no worker takes the batch up.
C23_StuckInProgress ==
    [][\A b \in BatchIds :
          (batches[b].status = "SIGNING_IN_PROGRESS" /\ ~SignerHolds(signer, b)) =>
             /\ batches'[b] = batches[b]
             /\ ~SignerHolds(signer', b)
             /\ b \notin Range(utc_queue') \cup Range(bro_queue') \cup Range(cc_queue')
             /\ \A p \in PaymentIds :
                   batched_into[p] = b =>
                      /\ payments'[p] = payments[p]
                      /\ payments[p].status = "BATCHED"]_vars

\* The process has just been restarted and finds a batch in
\* SIGNING_IN_PROGRESS for which the wallet CLI had not yet been started.
C23_Witness ==
    /\ restarted
    /\ \E b \in BatchIds :
          /\ batches[b].status = "SIGNING_IN_PROGRESS"
          /\ cli_started[b] = {}
          /\ \E p \in PaymentIds : batched_into[p] = b /\ payments[p].status = "BATCHED"

\* C24: when a tick of the signer ends on an error (a step of the signer that
\* is neither the poll, the claim, the start of the CLI nor the persisting of
\* its result), nothing is written: the batches later in the tick's list are
\* still AWAITING_SIGNATURE, the worker is back at the start of a tick with
\* nothing left over from the old one, and the poll of the next tick returns
\* those batches.
C24_TickAbort ==
    [][\A i \in instances :
          (/\ signer'[i] # signer[i]
           /\ signer[i].pc # "idle"
           /\ batches' = batches
           /\ cli_started' = cli_started
           /\ ~restarted') =>
             /\ payments' = payments
             /\ signer'[i] = IdleSigner
             /\ \A k \in 2..Len(signer[i].queue) :
                   /\ batches'[signer[i].queue[k].id].status = "AWAITING_SIGNATURE"
                   /\ signer[i].queue[k].id
                         \in Range(find_by_status(batches', "AWAITING_SIGNATURE"))]_vars

\* A tick over two batches has ended on an error after the claim of the
\* first: the signer is idle again, the first batch is claimed with no CLI
\* started, the second is still AWAITING_SIGNATURE.
C24_Witness ==
    /\ ~restarted
    /\ Len(batches) = 2
    /\ signer[1] = IdleSigner
    /\ batches[1].status = "SIGNING_IN_PROGRESS"
    /\ cli_started[1] = {}
    /\ batches[2].status = "AWAITING_SIGNATURE"

\* C25 (signer liveness without crash), the part a finite run decides: every
\* way a signer tick leaves a batch it has claimed, short of the process being
\* killed, persists an outcome for that batch, so the batch is then in
\* AWAITING_BROADCAST or FAILED and not in SIGNING_IN_PROGRESS.
C25_ExitPersistsOutcome ==
    [][\A i \in instances :
          (/\ signer'[i] # signer[i]
           /\ signer[i].pc \in {"prepare", "cli"}
           /\ signer'[i].pc \notin {"prepare", "cli"}
           /\ ~restarted')
          => batches'[Head(signer[i].queue).id].status \in {"AWAITING_BROADCAST", "FAILED"}]_vars

\* C26: with one signer, crashes and restarts included, the wallet CLI is
\* started at most once for a batch: whenever it is started for a batch it has
\* not been started for that batch before, the batch is then already claimed
\* (SIGNING_IN_PROGRESS), and a batch that has left AWAITING_SIGNATURE never
\* goes back to it.
C26_SignAtMostOnce ==
    [][/\ \A i \in instances :
             (signer[i].pc = "prepare" /\ signer'[i].pc = "cli") =>
                LET b == Head(signer[i].queue).id
                IN /\ cli_started[b] = {}
                   /\ cli_started'[b] = {i}
                   /\ batches[b].status = "SIGNING_IN_PROGRESS"
       /\ batches' # batches =>
             \A b \in BatchIds :
                batches[b].status \notin {"PENDING_BATCHING", "AWAITING_SIGNATURE"}
                    => batches'[b].status # "AWAITING_SIGNATURE"]_vars

\* The CLI runs for a second batch while a batch whose CLI was started in an
\* earlier tick or an earlier run of the process is still claimed.
C26_Witness ==
    \E i \in instances :
       /\ signer[i].pc = "cli"
       /\ \E b \in BatchIds :
             /\ b # Head(signer[i].queue).id
             /\ cli_started[b] = {i}
             /\ batches[b].status = "SIGNING_IN_PROGRESS"

\* The rows of the payments table that carry a client key.
RowsOfKey(ps, k) ==
    {i \in 1..Len(ps) : ps[i].client_id = k[1] /\ ps[i].account_name = k[2]}

C28_RetryBudgetPerBatch ==
    [][batches' # batches =>
          \A b \in BatchIds :
             /\ batches'[b].retry_count >= batches[b].retry_count
             /\ batches'[b].status # batches[b].status =>
                   batches'[b].retry_count = batches[b].retry_count
             /\ batches'[b].retry_count =
                   IF retry_calls'[b] < MAX_RETRIES THEN retry_calls'[b] ELSE MAX_RETRIES - 1
             /\ (retry_calls'[b] # retry_calls[b] /\ batches'[b].status = "FAILED") =>
                   /\ retry_calls'[b] = MAX_RETRIES
                   /\ batches'[b].retry_count = MAX_RETRIES - 1]_vars

\* A batch that was signed, hence had moved through three stages, and was then
\* failed by its MAX_RETRIES-th transient error.
C28_Witness ==
    \E b \in BatchIds :
        /\ batches[b].status = "FAILED"
        /\ batches[b].error_message \in TransientReasons
        /\ batches[b].signed_tx_json # None
        /\ batches[b].retry_count = MAX_RETRIES - 1
        /\ retry_calls[b] = MAX_RETRIES

\* C29: in every reachable state a batch in AWAITING_SIGNATURE,
\* SIGNING_IN_PROGRESS, AWAITING_BROADCAST, BROADCASTING, AWAITING_CONFIRMATION
\* or CONFIRMED has unsigned_tx_json set, a batch in AWAITING_BROADCAST,
\* BROADCASTING, AWAITING_CONFIRMATION or CONFIRMED has signed_tx_json set, and
\* a batch in PENDING_BATCHING has neither; and every batch in the list of a
\* signer tick was read with unsigned_tx_json set, so the tick never takes the
\* "has no unsigned_tx_json" exit.
C29_StageDataPresent ==
    /\ \A b \in BatchIds :
          /\ batches[b].status \in {"AWAITING_SIGNATURE", "SIGNING_IN_PROGRESS",
                                    "AWAITING_BROADCAST", "BROADCASTING",
                                    "AWAITING_CONFIRMATION", "CONFIRMED"}
                => batches[b].unsigned_tx_json \in UnsignedBodies
          /\ batches[b].status \in {"AWAITING_BROADCAST", "BROADCASTING",
                                    "AWAITING_CONFIRMATION", "CONFIRMED"}
                => batches[b].signed_tx_json \in SignedBodies
          /\ batches[b].status = "PENDING_BATCHING"
                => /\ batches[b].unsigned_tx_json = None
                   /\ batches[b].signed_tx_json = None
    /\ \A i \in instances : \A k \in 1..Len(signer[i].queue) :
          signer[i].queue[k].unsigned_tx_json \in UnsignedBodies

\* A confirmed batch with both transactions beside a batch still to be given
\* its unsigned transaction.
C29_Witness ==
    \E b, c \in BatchIds :
       /\ batches[b].status = "CONFIRMED"
       /\ batches[b].unsigned_tx_json \in UnsignedBodies
       /\ batches[b].signed_tx_json \in SignedBodies
       /\ batches[c].status = "PENDING_BATCHING"
       /\ batches[c].unsigned_tx_json = None
       /\ batches[c].signed_tx_json = None

====
